---- MODULE Spec2Model ----
(***************************************************************************)
(* A model of the rust-kv repository: the log-structured key/value store   *)
(* KvStore (src/src/kv.rs) and the SharedQueueThreadPool                   *)
(* (src/src/thread_pool/shared_queue_thread_pool.rs).                      *)
(*                                                                         *)
(* The directory is a function from file names to the records the          *)
(* operating system holds for the file.  A file name is a sequence of     *)
(* tokens ("data_", decimal digits, ".txt", ...), so that formatting a    *)
(* segment number and parsing a file name are computed, not assumed.      *)
(* Byte offsets are computed from the lengths of the serde_json encodings. *)
(***************************************************************************)
EXTENDS Integers, Sequences, FiniteSets, TLC

VARIABLES
    dir,                  \* the directory on disk: file name -> records
    pc,                   \* position of the single thread using the store
    index,                \* KvStore.index
    current_readers,      \* KvStore.current_readers (segment numbers)
    current_writer,       \* KvStore.current_writer: position and buffer
    current_file_number,  \* KvStore.current_file_number
    useless_size,         \* KvStore.useless_size
    compact_local,        \* locals of a running compact()
    last,                 \* the last call made and what it returned
    ref,                  \* reference map stepped with the same calls
    hist,                 \* snapshots taken at drop, crash and recovery
    pool_pc,              \* position of the thread that owns the pool
    workers,              \* SharedQueueThreadPool.workers: one thread each
    queue,                \* the mpsc channel: messages sent, not yet received
    mutex,                \* the Mutex around the Receiver
    receiver_refs,        \* live clones of the Arc holding the Receiver
    jobs,                 \* the jobs handed to spawn and what became of them
    drop_local,           \* progress of the two loops of drop()
    last_spawn            \* how the last call of spawn ended

kvvars == <<dir, pc, index, current_readers, current_writer,
            current_file_number, useless_size, compact_local,
            last, ref, hist>>

poolvars == <<pool_pc, workers, queue, mutex, receiver_refs, jobs,
              drop_local, last_spawn>>

vars == <<dir, pc, index, current_readers, current_writer,
          current_file_number, useless_size, compact_local,
          last, ref, hist,
          pool_pc, workers, queue, mutex, receiver_refs, jobs,
          drop_local, last_spawn>>

----------------------------------------------------------------------------
(* Bounds and inputs *)

Keys == {"1", "2"}

Values == {"a", "b"}

\* the (key, value) pairs that set is called with
Inputs == {<<"1", "a">>, <<"1", "b">>, <<"2", "a">>}

ValueLen == 500

MaxFileNumber == 4

MaxRestarts == 1

MaxWorkers == 2

MaxJobs == 3

KeyLen(k) == 1

ValLen(v) == ValueLen

----------------------------------------------------------------------------
(* Program constants *)

MAX_USELESS_SIZE == 1024

\* {"SET":["<key>","<value>"]}  is 15 bytes around key and value
SetOverhead == 15

\* {"RM":"<key>"}  is 9 bytes around the key
RmOverhead == 9

None == "None"

\* no file number: a field that holds a file number holds none
NoNumber == -1

----------------------------------------------------------------------------
(* Commands and their encoding *)

SET(key, value) == [type |-> "SET", key |-> key, value |-> value]

RM(key) == [type |-> "RM", key |-> key]

\* bytes copied from a range that is not one whole command
RAW(n) == [type |-> "RAW", n |-> n]

\* length of serde_json::to_vec(&command)
to_vec_len(c) ==
    CASE c.type = "SET" -> SetOverhead + KeyLen(c.key) + ValLen(c.value)
      [] c.type = "RM"  -> RmOverhead + KeyLen(c.key)
      [] OTHER          -> c.n

RECURSIVE FileSize(_)
FileSize(content) ==
    IF content = <<>> THEN 0
    ELSE to_vec_len(Head(content)) + FileSize(Tail(content))

\* byte offset at which record i of content begins
OffsetOf(content, i) == FileSize(SubSeq(content, 1, i - 1))

\* seek(offset), take(length), then decode one command
ReadAt(content, offset, length) ==
    LET hits == {i \in 1..Len(content) :
                    /\ OffsetOf(content, i) = offset
                    /\ to_vec_len(content[i]) = length
                    /\ content[i].type # "RAW"}
    IN IF hits = {} THEN RAW(length) ELSE content[CHOOSE i \in hits : TRUE]

----------------------------------------------------------------------------
(* File names *)

DigitChars == <<"0", "1", "2", "3", "4", "5", "6", "7", "8", "9">>

IsDigit(t) == \E d \in 1..10 : DigitChars[d] = t

DigitVal(t) == (CHOOSE d \in 1..10 : DigitChars[d] = t) - 1

RECURSIVE Decimal(_)
Decimal(n) ==
    IF n < 10 THEN <<DigitChars[n + 1]>>
    ELSE Decimal(n \div 10) \o <<DigitChars[(n % 10) + 1]>>

\* format!("data_{}.txt", n)
FileName(n) == <<"data_">> \o Decimal(n) \o <<".txt">>

RECURSIVE trim_start_matches(_, _)
trim_start_matches(name, pat) ==
    IF name # <<>> /\ Head(name) = pat
    THEN trim_start_matches(Tail(name), pat)
    ELSE name

RECURSIVE trim_end_matches(_, _)
trim_end_matches(name, pat) ==
    IF name # <<>> /\ name[Len(name)] = pat
    THEN trim_end_matches(SubSeq(name, 1, Len(name) - 1), pat)
    ELSE name

RECURSIVE DigitsValue(_, _)
DigitsValue(ds, acc) ==
    IF ds = <<>> THEN acc
    ELSE DigitsValue(Tail(ds), acc * 10 + DigitVal(Head(ds)))

\* str::parse::<u64>: an optional "+", then one or more decimal digits
parse_u64(s) ==
    LET ds == IF s # <<>> /\ Head(s) = "+" THEN Tail(s) ELSE s
    IN IF ds # <<>> /\ \A i \in 1..Len(ds) : IsDigit(ds[i])
       THEN [ok |-> TRUE, val |-> DigitsValue(ds, 0)]
       ELSE [ok |-> FALSE, val |-> 0]

\* path.extension() == Some("txt")
HasTxtExtension(name) == Len(name) > 1 /\ name[Len(name)] = ".txt"

\* the version recover() reads out of one directory entry
VersionOf(name) ==
    IF HasTxtExtension(name)
    THEN parse_u64(trim_end_matches(trim_start_matches(name, "data_"), ".txt"))
    ELSE [ok |-> FALSE, val |-> 0]

----------------------------------------------------------------------------
(* Directory helpers *)

Exists(d, name) == name \in DOMAIN d

ContentOf(d, name) == IF Exists(d, name) THEN d[name] ELSE <<>>

\* OpenOptions::new().create(true).append(true).open(path)
CreateFile(d, name) == IF Exists(d, name) THEN d ELSE d @@ (name :> <<>>)

\* remove_file(path)
Unlink(d, name) == [n \in DOMAIN d \ {name} |-> d[n]]

AppendTo(d, name, records) ==
    [n \in DOMAIN d |-> IF n = name THEN d[n] \o records ELSE d[n]]

----------------------------------------------------------------------------
(* The index *)

EmptyIndex == [k \in {} |-> 0]

CommandPosition(offset, length, file_number) ==
    [offset |-> offset, length |-> length, file_number |-> file_number]

\* an insert that keeps the entry the map already holds (entry().or_insert)
IndexInsertIfAbsent(idx, key, cp) ==
    [k \in DOMAIN idx \cup {key} |-> IF k \in DOMAIN idx THEN idx[k] ELSE cp]

\* HashMap::insert
IndexInsert(idx, key, cp) ==
    [k \in DOMAIN idx \cup {key} |-> IF k = key THEN cp ELSE idx[k]]

\* HashMap::remove
IndexRemove(idx, key) == [k \in DOMAIN idx \ {key} |-> idx[k]]

\* .map(|cp| cp.length).unwrap_or(0) on the entry the map held for key
OldLength(idx, key) == IF key \in DOMAIN idx THEN idx[key].length ELSE 0

----------------------------------------------------------------------------
(* KvStore::recover *)

\* the parsed versions of the directory entries, sorted, duplicates kept
RECURSIVE SortedVersions(_, _)
SortedVersions(d, names) ==
    IF names = {} THEN <<>>
    ELSE LET least == CHOOSE n \in names :
                          \A m \in names : VersionOf(n).val <= VersionOf(m).val
         IN <<VersionOf(least).val>> \o SortedVersions(d, names \ {least})

versions_of(d) == SortedVersions(d, {n \in DOMAIN d : VersionOf(n).ok})

\* a replay that counts a RM command as waste but keeps the index entry
RecoverCommandKeepsRemoved(st, command, version, before_offset) ==
    LET after_offset == before_offset + to_vec_len(command)
        length == after_offset - before_offset
    IN CASE command.type = "SET" ->
              [st EXCEPT
                 !.useless_size = @ + OldLength(st.index, command.key),
                 !.index = IndexInsert(@, command.key,
                              CommandPosition(before_offset, length, version))]
         [] command.type = "RM" ->
              [st EXCEPT
                 !.useless_size = @ + OldLength(st.index, command.key) + length]
         [] OTHER -> [st EXCEPT !.err = "Serde"]

\* a replay that passes over bytes it cannot decode
RecoverCommandSkipsTorn(st, command, version, before_offset) ==
    LET after_offset == before_offset + to_vec_len(command)
        length == after_offset - before_offset
    IN CASE command.type = "SET" ->
              [st EXCEPT
                 !.useless_size = @ + OldLength(st.index, command.key),
                 !.index = IndexInsert(@, command.key,
                              CommandPosition(before_offset, length, version))]
         [] command.type = "RM" ->
              [st EXCEPT
                 !.useless_size = @ + OldLength(st.index, command.key) + length,
                 !.index = IndexRemove(@, command.key)]
         [] OTHER -> st

\* a replay that does not count the bytes of a RM command as waste
RecoverCommandRmUncounted(st, command, version, before_offset) ==
    LET after_offset == before_offset + to_vec_len(command)
        length == after_offset - before_offset
    IN CASE command.type = "SET" ->
              [st EXCEPT
                 !.useless_size = @ + OldLength(st.index, command.key),
                 !.index = IndexInsert(@, command.key,
                              CommandPosition(before_offset, length, version))]
         [] command.type = "RM" ->
              [st EXCEPT
                 !.useless_size = @ + OldLength(st.index, command.key),
                 !.index = IndexRemove(@, command.key)]
         [] OTHER -> [st EXCEPT !.err = "Serde"]

\* one step of the loop over the commands of one segment
RecoverCommand(st, command, version, before_offset) ==
    LET after_offset == before_offset + to_vec_len(command)
        length == after_offset - before_offset
    IN CASE command.type = "SET" ->
              [st EXCEPT
                 !.useless_size = @ + OldLength(st.index, command.key),
                 !.index = IndexInsert(@, command.key,
                              CommandPosition(before_offset, length, version))]
         [] command.type = "RM" ->
              [st EXCEPT
                 !.useless_size = @ + OldLength(st.index, command.key) + length,
                 !.index = IndexRemove(@, command.key)]
         [] OTHER -> [st EXCEPT !.err = "Serde"]

RECURSIVE RecoverFile(_, _, _, _, _)
RecoverFile(st, content, i, version, before_offset) ==
    IF st.err # "Ok" \/ i > Len(content) THEN st
    ELSE RecoverFile(RecoverCommand(st, content[i], version, before_offset),
                     content, i + 1, version,
                     before_offset + to_vec_len(content[i]))

RECURSIVE RecoverVersions(_, _, _, _)
RecoverVersions(st, d, versions, i) ==
    IF st.err # "Ok" \/ i > Len(versions) THEN st
    ELSE LET version == versions[i]
             file_path == FileName(version)
         IN IF ~Exists(d, file_path) THEN [st EXCEPT !.err = "Io"]
            ELSE LET st1 == RecoverFile(st, d[file_path], 1, version, 0)
                 IN RecoverVersions(
                        IF st1.err # "Ok" THEN st1
                        ELSE [st1 EXCEPT !.readers = @ \cup {version}],
                        d, versions, i + 1)

recover(d) ==
    LET versions == versions_of(d)
        st == RecoverVersions([index |-> EmptyIndex, readers |-> {},
                               useless_size |-> 0, err |-> "Ok"],
                              d, versions, 1)
    IN [index |-> st.index,
        readers |-> st.readers,
        useless_size |-> st.useless_size,
        err |-> st.err,
        current_file_number |->
            IF versions = <<>> THEN 0 ELSE versions[Len(versions)]]

----------------------------------------------------------------------------
(* KvStore::get *)

get(idx, readers, d, key) ==
    IF key \notin DOMAIN idx THEN None
    ELSE LET position == idx[key]
         IN IF position.file_number \notin readers THEN "panic"
            ELSE LET command == ReadAt(ContentOf(d, FileName(position.file_number)),
                                       position.offset, position.length)
                 IN CASE command.type = "SET" -> command.value
                      [] command.type = "RM"  -> "UnknownCommandType"
                      [] OTHER                -> "Serde"

\* what get returns for every key, on the open store
ViewMap == [k \in Keys |-> get(index, current_readers, dir, k)]

----------------------------------------------------------------------------
(* State of the thread pool *)

NoHolder == 0

Terminate == [type |-> "Terminate"]

NewJob(job) == [type |-> "NewJob", job |-> job]

NoJob == [status |-> "none", panics |-> FALSE]

\* no pool has been built
NoPool ==
    /\ pool_pc = "none"
    /\ workers = <<>>
    /\ queue = <<>>
    /\ mutex = [holder |-> NoHolder, poisoned |-> FALSE]
    /\ receiver_refs = 0
    /\ jobs = [j \in 1..MaxJobs |-> NoJob]
    /\ drop_local = [sent |-> 0, joined |-> 0]
    /\ last_spawn = "none"

\* no store has been opened on the fresh directory
NoStore ==
    /\ dir = [n \in {} |-> <<>>]
    /\ pc = "closed"
    /\ index = [k \in {} |-> 0]
    /\ current_readers = {}
    /\ current_writer = [position |-> 0, buffer |-> <<>>]
    /\ current_file_number = 0
    /\ useless_size = 0
    /\ compact_local = [before_offset |-> 0, todo |-> {},
                        delete_file_numbers |-> {}]
    /\ last = [op |-> "none", key |-> None, result |-> "Ok",
               compacted |-> FALSE]
    /\ ref = [k \in Keys |-> None]
    /\ hist = [kind |-> "none", snap |-> [k \in Keys |-> None],
               pre |-> [k \in Keys |-> None],
               recovered |-> [k \in Keys |-> None],
               since |-> 0, trigger |-> 0, restarts |-> 0,
               entered |-> NoNumber, compacted_segment |-> NoNumber]

----------------------------------------------------------------------------
(* State of the store *)

NoLocal == [before_offset |-> 0, todo |-> {}, delete_file_numbers |-> {}]

NoWriter == [position |-> 0, buffer |-> <<>>]

NoMap == [k \in Keys |-> None]

Called(op, key, result) ==
    [op |-> op, key |-> key, result |-> result, compacted |-> FALSE]

NoHist == [kind |-> "none", snap |-> NoMap, pre |-> NoMap,
           recovered |-> NoMap, since |-> 0, trigger |-> 0, restarts |-> 0,
           entered |-> NoNumber, compacted_segment |-> NoNumber]

\* no store is open: the process holds nothing of the directory in memory
Closed ==
    /\ pc' = "closed"
    /\ index' = EmptyIndex
    /\ current_readers' = {}
    /\ current_writer' = NoWriter
    /\ current_file_number' = 0
    /\ useless_size' = 0
    /\ compact_local' = NoLocal
    /\ ref' = NoMap

\* the operation returns without running compact()
Return(idx, readers, file_number, d, position) ==
    /\ pc' = "idle"
    /\ index' = idx
    /\ current_readers' = readers
    /\ current_file_number' = file_number
    /\ dir' = d
    /\ current_writer' = [position |-> position, buffer |-> <<>>]
    /\ compact_local' = NoLocal

\* create_new_file(): next number, new writer at the end of the file, reader
create_new_file(readers, file_number, d) ==
    LET new_file_path == FileName(file_number + 1)
        d1 == CreateFile(d, new_file_path)
    IN /\ current_file_number' = file_number + 1
       /\ dir' = d1
       /\ current_writer' = [position |-> FileSize(d1[new_file_path]),
                             buffer |-> <<>>]
       /\ current_readers' = readers \cup {file_number + 1}

\* the operation enters compact(): create_new_file(), then the copy loop
EnterCompact(idx, readers, file_number, d) ==
    /\ pc' = "compact_copy"
    /\ index' = idx
    /\ create_new_file(readers, file_number, d)
    /\ compact_local' = [before_offset |-> 0, todo |-> DOMAIN idx,
                         delete_file_numbers |-> {}]

\* if self.useless_size > MAX_USELESS_SIZE { self.compact()?; }
MaybeCompact(useless, idx, readers, file_number, d, position) ==
    IF useless > MAX_USELESS_SIZE
    THEN /\ file_number + 2 <= MaxFileNumber
         /\ EnterCompact(idx, readers, file_number, d)
    ELSE Return(idx, readers, file_number, d, position)

Init == NoStore /\ NoPool

----------------------------------------------------------------------------
(* KvStore::open *)

Open ==
    /\ pc = "closed"
    /\ UNCHANGED poolvars
    /\ LET r == recover(dir)
           current_file_path == FileName(r.current_file_number)
           d1 == CreateFile(dir, current_file_path)
           readers == IF r.current_file_number = 0
                      THEN r.readers \cup {0} ELSE r.readers
           view == [k \in Keys |-> get(r.index, readers, d1, k)]
       IN IF r.err # "Ok"
          THEN /\ last' = Called("open", None, r.err)
               /\ UNCHANGED <<dir, pc, index, current_readers, current_writer,
                              current_file_number, useless_size,
                              compact_local, ref, hist>>
          ELSE /\ useless_size' = r.useless_size
               /\ MaybeCompact(r.useless_size, r.index, readers,
                               r.current_file_number, d1,
                               FileSize(d1[current_file_path]))
               /\ last' = Called("open", None, "Ok")
               /\ ref' = view
               /\ hist' = [hist EXCEPT !.recovered = view,
                                       !.pre = IF r.useless_size > MAX_USELESS_SIZE
                                               THEN view ELSE NoMap,
                                       !.since = r.useless_size,
                                       !.trigger = r.useless_size,
                                       !.entered =
                                           IF r.useless_size > MAX_USELESS_SIZE
                                           THEN r.current_file_number
                                           ELSE NoNumber,
                                       !.compacted_segment =
                                           IF r.useless_size > MAX_USELESS_SIZE
                                           THEN NoNumber ELSE @]

----------------------------------------------------------------------------
(* KvStore::set *)

Set(key, value) ==
    /\ pc = "idle"
    /\ UNCHANGED poolvars
    /\ LET command == SET(key, value)
           offset == current_writer.position
           d1 == AppendTo(dir, FileName(current_file_number), <<command>>)
           position == offset + to_vec_len(command)
           length == position - offset
           idx1 == IndexInsert(index, key,
                       CommandPosition(offset, length, current_file_number))
           useless == useless_size + OldLength(index, key)
       IN /\ useless_size' = useless
          /\ MaybeCompact(useless, idx1, current_readers,
                          current_file_number, d1, position)
          /\ last' = Called("set", key, "Ok")
          /\ ref' = [ref EXCEPT ![key] = value]
          /\ hist' = [hist EXCEPT
                        !.kind = "none", !.snap = NoMap, !.recovered = NoMap,
                        !.pre = IF useless > MAX_USELESS_SIZE
                                THEN [k \in Keys |->
                                        get(idx1, current_readers, d1, k)]
                                ELSE NoMap,
                        !.since = @ + OldLength(index, key),
                        !.trigger = hist.since + OldLength(index, key),
                        !.entered = IF useless > MAX_USELESS_SIZE
                                    THEN current_file_number ELSE NoNumber,
                        !.compacted_segment = IF useless > MAX_USELESS_SIZE
                                              THEN NoNumber ELSE @]

----------------------------------------------------------------------------
(* KvStore::get *)

Get(key) ==
    /\ pc = "idle"
    /\ UNCHANGED poolvars
    /\ last' = Called("get", key, get(index, current_readers, dir, key))
    /\ hist' = [hist EXCEPT !.kind = "none", !.snap = NoMap,
                            !.recovered = NoMap]
    /\ UNCHANGED <<dir, pc, index, current_readers, current_writer,
                   current_file_number, useless_size, compact_local, ref>>

----------------------------------------------------------------------------
(* KvStore::remove *)

\* a remove that appends its RM command before it looks the key up
RemoveAppendsFirst(key) ==
    /\ pc = "idle"
    /\ UNCHANGED poolvars
    /\ LET command == RM(key)
           offset == current_writer.position
           d1 == AppendTo(dir, FileName(current_file_number), <<command>>)
           position == offset + to_vec_len(command)
       IN /\ dir' = d1
          /\ current_writer' = [position |-> position, buffer |-> <<>>]
          /\ IF key \in DOMAIN index
             THEN /\ index' = IndexRemove(index, key)
                  /\ useless_size' = useless_size + OldLength(index, key)
                                        + (position - offset)
                  /\ last' = Called("remove", key, "Ok")
             ELSE /\ index' = index
                  /\ useless_size' = useless_size
                  /\ last' = Called("remove", key, "KeyNotFound")
          /\ ref' = [ref EXCEPT ![key] = None]
          /\ UNCHANGED <<pc, current_readers, current_file_number,
                         compact_local, hist>>

Remove(key) ==
    /\ pc = "idle"
    /\ UNCHANGED poolvars
    /\ IF key \in DOMAIN index
       THEN LET idx1 == IndexRemove(index, key)
                command == RM(key)
                offset == current_writer.position
                d1 == AppendTo(dir, FileName(current_file_number), <<command>>)
                position == offset + to_vec_len(command)
                added == OldLength(index, key) + (position - offset)
                useless == useless_size + added
            IN /\ useless_size' = useless
               /\ MaybeCompact(useless, idx1, current_readers,
                               current_file_number, d1, position)
               /\ last' = Called("remove", key, "Ok")
               /\ ref' = [ref EXCEPT ![key] = None]
               /\ hist' = [hist EXCEPT
                             !.kind = "none", !.snap = NoMap,
                             !.recovered = NoMap,
                             !.pre = IF useless > MAX_USELESS_SIZE
                                     THEN [k \in Keys |->
                                        get(idx1, current_readers, d1, k)]
                                     ELSE NoMap,
                             !.since = @ + added,
                             !.trigger = hist.since + added,
                             !.entered = IF useless > MAX_USELESS_SIZE
                                         THEN current_file_number
                                         ELSE NoNumber,
                             !.compacted_segment =
                                 IF useless > MAX_USELESS_SIZE
                                 THEN NoNumber ELSE @]
       ELSE /\ last' = Called("remove", key, "KeyNotFound")
            /\ UNCHANGED <<dir, pc, index, current_readers, current_writer,
                           current_file_number, useless_size, compact_local,
                           ref, hist>>

----------------------------------------------------------------------------
(* KvStore::compact, one step of its loops at a time *)

\* a copy loop without its `before_offset = after_offset`
CompactCopyKeepsBeforeOffset ==
    /\ pc = "compact_copy"
    /\ UNCHANGED poolvars
    /\ \E key \in compact_local.todo :
         LET position == index[key]
             source == ContentOf(dir, FileName(position.file_number))
             data == ReadAt(source, position.offset, position.length)
             before_offset == compact_local.before_offset
             after_offset == current_writer.position + to_vec_len(data)
         IN /\ position.file_number \in current_readers
            /\ current_writer' = [position |-> after_offset,
                                  buffer |-> Append(current_writer.buffer, data)]
            /\ index' = [index EXCEPT ![key] =
                            CommandPosition(before_offset,
                                            after_offset - before_offset,
                                            current_file_number)]
            /\ compact_local' = [compact_local EXCEPT !.todo = @ \ {key}]
    /\ UNCHANGED <<dir, pc, current_readers, current_file_number,
                   useless_size, last, ref, hist>>

\* one turn of `for position in self.index.values_mut()`, in HashMap order
CompactCopy ==
    /\ pc = "compact_copy"
    /\ UNCHANGED poolvars
    /\ \E key \in compact_local.todo :
         LET position == index[key]
             source == ContentOf(dir, FileName(position.file_number))
             data == ReadAt(source, position.offset, position.length)
             before_offset == compact_local.before_offset
             after_offset == current_writer.position + to_vec_len(data)
         IN /\ position.file_number \in current_readers
            /\ current_writer' = [position |-> after_offset,
                                  buffer |-> Append(current_writer.buffer, data)]
            /\ index' = [index EXCEPT ![key] =
                            CommandPosition(before_offset,
                                            after_offset - before_offset,
                                            current_file_number)]
            /\ compact_local' = [compact_local EXCEPT
                                    !.before_offset = after_offset,
                                    !.todo = @ \ {key}]
    /\ UNCHANGED <<dir, pc, current_readers, current_file_number,
                   useless_size, last, ref, hist>>

\* a compact() whose filter is `*key <= self.current_file_number`
CompactFlushDeletesCurrent ==
    /\ pc = "compact_copy"
    /\ UNCHANGED poolvars
    /\ compact_local.todo = {}
    /\ dir' = AppendTo(dir, FileName(current_file_number), current_writer.buffer)
    /\ current_writer' = [current_writer EXCEPT !.buffer = <<>>]
    /\ compact_local' = [compact_local EXCEPT !.delete_file_numbers =
                            {n \in current_readers : n <= current_file_number}]
    /\ pc' = "compact_delete"
    /\ UNCHANGED <<index, current_readers, current_file_number, useless_size,
                   last, ref, hist>>

\* self.current_writer.flush()?; then collect delete_file_numbers
CompactFlush ==
    /\ pc = "compact_copy"
    /\ UNCHANGED poolvars
    /\ compact_local.todo = {}
    /\ dir' = AppendTo(dir, FileName(current_file_number), current_writer.buffer)
    /\ current_writer' = [current_writer EXCEPT !.buffer = <<>>]
    /\ compact_local' = [compact_local EXCEPT !.delete_file_numbers =
                            {n \in current_readers : n < current_file_number}]
    /\ pc' = "compact_delete"
    /\ UNCHANGED <<index, current_readers, current_file_number, useless_size,
                   last, ref, hist>>

\* one turn of `for number in delete_file_numbers`, in HashMap order
CompactDelete ==
    /\ pc = "compact_delete"
    /\ UNCHANGED poolvars
    /\ \E number \in compact_local.delete_file_numbers :
         /\ current_readers' = current_readers \ {number}
         /\ dir' = Unlink(dir, FileName(number))
         /\ compact_local' = [compact_local EXCEPT
                                 !.delete_file_numbers = @ \ {number}]
    /\ UNCHANGED <<pc, index, current_writer, current_file_number,
                   useless_size, last, ref, hist>>

\* a compact() that returns without its second create_new_file()
CompactFinishKeepsWriter ==
    /\ pc = "compact_delete"
    /\ UNCHANGED poolvars
    /\ compact_local.delete_file_numbers = {}
    /\ pc' = "idle"
    /\ compact_local' = NoLocal
    /\ last' = [last EXCEPT !.compacted = TRUE]
    /\ hist' = [hist EXCEPT !.since = 0, !.pre = NoMap,
                            !.compacted_segment = current_file_number]
    /\ UNCHANGED <<dir, index, current_readers, current_writer,
                   current_file_number, useless_size, ref>>

\* the second create_new_file(); compact() and its caller return Ok
CompactFinish ==
    /\ pc = "compact_delete"
    /\ UNCHANGED poolvars
    /\ compact_local.delete_file_numbers = {}
    /\ create_new_file(current_readers, current_file_number, dir)
    /\ pc' = "idle"
    /\ compact_local' = NoLocal
    /\ last' = [last EXCEPT !.compacted = TRUE]
    /\ hist' = [hist EXCEPT !.since = 0, !.pre = NoMap,
                            !.compacted_segment = current_file_number]
    /\ UNCHANGED <<index, useless_size, ref>>

----------------------------------------------------------------------------
(* The process ends *)

\* the store is dropped without a close; every write was flushed
Drop ==
    /\ pc = "idle"
    /\ UNCHANGED poolvars
    /\ Closed
    /\ last' = Called("drop", None, "Ok")
    /\ hist.restarts < MaxRestarts
    /\ hist' = [NoHist EXCEPT !.kind = "drop", !.snap = ViewMap,
                              !.restarts = hist.restarts + 1,
                              !.compacted_segment = hist.compacted_segment]
    /\ UNCHANGED dir

\* the whole commands of the writer's buffer that reached the file
CrashedDir ==
    {AppendTo(dir, FileName(current_file_number),
              SubSeq(current_writer.buffer, 1, n)) :
        n \in 0..Len(current_writer.buffer)}

\* the process dies inside compact()
Crash ==
    /\ pc \in {"compact_copy", "compact_delete"}
    /\ UNCHANGED poolvars
    /\ dir' \in CrashedDir
    /\ Closed
    /\ last' = Called("crash", None, "Ok")
    /\ hist.restarts < MaxRestarts
    /\ hist' = [NoHist EXCEPT !.kind = "crash", !.snap = hist.pre,
                              !.restarts = hist.restarts + 1]

----------------------------------------------------------------------------
Next ==
    \/ Open
    \/ \E kv \in Inputs : Set(kv[1], kv[2])
    \/ \E key \in Keys : Get(key)
    \/ \E key \in Keys : Remove(key)
    \/ CompactCopy
    \/ CompactFlush
    \/ CompactDelete
    \/ CompactFinish
    \/ Drop
    \/ Crash

Spec == Init /\ [][Next]_vars

----------------------------------------------------------------------------
(* A directory that also holds files the store did not write *)

ForeignNames ==
    { <<"7", ".txt">>,
      <<"data_", "data_", "3", ".txt">>,
      <<"data_", "0", "3", ".txt">>,
      <<"data_", "x", ".txt">>,
      <<"notes", ".md">> }

ForeignContent == <<RAW(3)>>

\* the name has the exact form data_{n}.txt
IsSegmentName(name) == \E n \in 0..(MaxFileNumber + 10) : name = FileName(n)

SegmentsOnly(d) == [n \in {m \in DOMAIN d : IsSegmentName(m)} |-> d[n]]

InitForeign ==
    /\ \E f \in ForeignNames : dir = (f :> ForeignContent)
    /\ pc = "closed"
    /\ index = EmptyIndex
    /\ current_readers = {}
    /\ current_writer = NoWriter
    /\ current_file_number = 0
    /\ useless_size = 0
    /\ compact_local = NoLocal
    /\ last = Called("none", None, "Ok")
    /\ ref = NoMap
    /\ hist = NoHist
    /\ NoPool

SpecForeign == InitForeign /\ [][Next]_vars

----------------------------------------------------------------------------
(* Claims about the store *)

\* C1: on an open store, get(k) returns what a plain map stepped with the
\* same set and remove calls holds for k, compactions included.
C1_GetAgreesWithReferenceMap ==
    pc = "idle" =>
        /\ ViewMap = ref
        /\ last.op = "get" => last.result = ref[last.key]

\* a get that returned the overwritten value of key 1 after a compaction
\* that ran while key 2 was removed
C1_Witness ==
    /\ pc = "idle"
    /\ last.op = "get" /\ last.key = "1" /\ last.result = "b"
    /\ ref["2"] = None
    /\ current_file_number >= 2
    /\ Len(ContentOf(dir, FileName(current_file_number))) > 0

\* C2: after a drop without close and an open of the same directory, get
\* returns for every key what it returned just before the drop.
C2_ReopenPreservesGet ==
    (last.op = "open" /\ hist.kind = "drop") =>
        /\ last.result = "Ok"
        /\ hist.recovered = hist.snap
        /\ pc = "idle" => ViewMap = hist.snap

\* a store reopened after a compaction, holding both keys
C2_Witness ==
    /\ last.op = "open" /\ hist.kind = "drop" /\ pc = "idle"
    /\ hist.snap["1"] = "b" /\ hist.snap["2"] = "a"
    /\ current_file_number >= 2

\* C3: after a crash at any point inside compact, open succeeds and get
\* returns for every key what it returned when the compaction started.
C3_PartialCompactionRecoverable ==
    (last.op = "open" /\ hist.kind = "crash") =>
        /\ last.result = "Ok"
        /\ hist.recovered = hist.snap

\* C4: remove of a key that is not in the index returns KeyNotFound and
\* changes nothing: no append, same index, waste, segment number, readers
\* and writer, and no compaction starts.
C4_RemoveAbsentIsNoOp ==
    [][(pc = "idle" /\ last'.op = "remove" /\ last'.key \notin DOMAIN index)
          => /\ last'.result = "KeyNotFound"
             /\ UNCHANGED <<dir, index, useless_size, current_file_number,
                            current_readers, current_writer, pc>>]_vars

\* remove of an absent key on a store that holds records and waste
C4_Witness ==
    /\ pc = "idle"
    /\ last.op = "remove" /\ last.result = "KeyNotFound"
    /\ last.key \notin DOMAIN index
    /\ DOMAIN index # {}
    /\ useless_size > 0

\* C5: when a compaction has completed, the waste counter is zero in the
\* state the triggering operation returns.
C5_WasteZeroAfterCompaction ==
    (pc = "idle" /\ last.compacted) => useless_size = 0

\* C6: a set runs compact only when the bytes superseded since the last
\* compaction (since open: the recovered waste) exceed MAX_USELESS_SIZE.
C6_OneCompactionPerThresholdCrossing ==
    (pc = "idle" /\ last.op = "set" /\ last.compacted)
        => hist.trigger > MAX_USELESS_SIZE

\* C7: open of a directory that also holds files not named data_{n}.txt
\* succeeds and recovers the index, waste and segment number it recovers
\* without them, and no step changes or deletes such a file.
C7_ForeignFilesIgnored ==
    [][/\ \A n \in DOMAIN dir :
            ~IsSegmentName(n) => (n \in DOMAIN dir' /\ dir'[n] = dir[n])
       /\ (pc = "closed" /\ last'.op = "open") =>
            LET r == recover(SegmentsOnly(dir))
            IN /\ last'.result = r.err
               /\ r.err = "Ok" =>
                    /\ index' = r.index
                    /\ useless_size' = r.useless_size
                    /\ current_file_number' \in
                          {r.current_file_number, r.current_file_number + 1}
      ]_vars

----------------------------------------------------------------------------
(* Segment numbers *)

\* the numbers n whose file data_{n}.txt is in the directory
SegmentNumbers(d) == {n \in 0..(MaxFileNumber + 10) : FileName(n) \in DOMAIN d}

\* the highest segment number of the directory
HighestSegment(d) ==
    IF SegmentNumbers(d) = {}
    THEN NoNumber
    ELSE CHOOSE n \in SegmentNumbers(d) : \A m \in SegmentNumbers(d) : m <= n

\* the step enters compact(): the first create_new_file() has run
EntersCompact == pc # "compact_copy" /\ pc' = "compact_copy"

\* the step is the return of compact(): the second create_new_file() has run
LeavesCompact == pc = "compact_delete" /\ pc' = "idle"

\* C11: the highest segment number of the directory never decreases, in
\* open, set, remove, compaction, crash and reopen, and it is strictly
\* higher after a compaction than before it
C11_HighestSegmentNeverDecreases ==
    [][/\ HighestSegment(dir') >= HighestSegment(dir)
       /\ EntersCompact => HighestSegment(dir') > HighestSegment(dir)
       /\ LeavesCompact => HighestSegment(dir') > HighestSegment(dir)]_vars

\* a compaction has run to its end in the store that was opened after a crash
C11_Witness ==
    /\ pc = "idle"
    /\ hist.kind = "crash"
    /\ last.op = "open"
    /\ last.compacted
    /\ HighestSegment(dir) >= 3

----------------------------------------------------------------------------
(* A process that dies in the middle of a write *)

\* how many bytes of a command reached the file: the first, or all but one
TornLengths(command) == {1, to_vec_len(command) - 1}

\* the commands set and remove can be in the middle of appending
Appendable ==
    {SET(kv[1], kv[2]) : kv \in Inputs} \cup {RM(key) : key \in DOMAIN index}

\* the process dies inside write_all()/flush() of set or remove
CrashInAppend ==
    /\ pc = "idle"
    /\ UNCHANGED poolvars
    /\ \E command \in Appendable : \E n \in TornLengths(command) :
         dir' = AppendTo(dir, FileName(current_file_number), <<RAW(n)>>)
    /\ Closed
    /\ last' = Called("crash", None, "Ok")
    /\ hist' = [NoHist EXCEPT !.kind = "torn", !.restarts = hist.restarts]

\* the process dies inside the flush() of compact(), part of a copy written
CrashInFlush ==
    /\ pc = "compact_copy"
    /\ UNCHANGED poolvars
    /\ \E i \in 1..Len(current_writer.buffer) :
         \E n \in TornLengths(current_writer.buffer[i]) :
           dir' = AppendTo(dir, FileName(current_file_number),
                           Append(SubSeq(current_writer.buffer, 1, i - 1),
                                  RAW(n)))
    /\ Closed
    /\ last' = Called("crash", None, "Ok")
    /\ hist' = [NoHist EXCEPT !.kind = "torn", !.restarts = hist.restarts]

NextTorn ==
    \/ Open
    \/ \E kv \in Inputs : Set(kv[1], kv[2])
    \/ \E key \in Keys : Remove(key)
    \/ CompactCopy
    \/ CompactFlush
    \/ CompactDelete
    \/ CompactFinish
    \/ Drop
    \/ CrashInAppend
    \/ CrashInFlush

SpecTorn == Init /\ [][NextTorn]_vars

\* the last bytes of some segment are not a whole command
HasTornTail(d) ==
    \E number \in SegmentNumbers(d) :
       LET content == d[FileName(number)]
       IN content # <<>> /\ content[Len(content)].type = "RAW"

\* C12: on a directory where a segment ends in a torn record, open fails
\* with the Serde error and no store is open on it, so the torn record is
\* neither dropped nor truncated
C12_TornTailFailsOpen ==
    HasTornTail(dir) =>
        /\ pc = "closed"
        /\ last.op = "open" => last.result = "Serde"

\* open has failed on a segment of whole commands followed by a torn one
C12_Witness ==
    /\ HasTornTail(dir)
    /\ last.op = "open"
    /\ last.result = "Serde"
    /\ \E number \in SegmentNumbers(dir) : Len(dir[FileName(number)]) > 1

----------------------------------------------------------------------------
(* What the index designates *)

\* the bytes written to a segment: those of the file and, for the active
\* segment, those the writer still buffers inside compact()
Written(number) ==
    ContentOf(dir, FileName(number)) \o
        (IF number = current_file_number THEN current_writer.buffer ELSE <<>>)

\* the entry of the key is the range of one whole SET command of that key
DesignatesSet(key) ==
    LET position == index[key]
        command == ReadAt(Written(position.file_number),
                          position.offset, position.length)
    IN /\ Exists(dir, FileName(position.file_number))
       /\ command.type = "SET"
       /\ command.key = key

\* C13: every index entry designates, in an existing segment file, the byte
\* range of exactly one whole SET command of its key, also where compact()
\* has rewritten it; and get never returns UnknownCommandType
C13_IndexDesignatesSetRecords ==
    /\ \A key \in DOMAIN index : DesignatesSet(key)
    /\ last.op = "get" =>
           last.result \notin {"UnknownCommandType", "Serde", "panic"}

\* a compaction has rewritten the entries of two keys, one behind the other
C13_Witness ==
    /\ pc = "idle"
    /\ last.compacted
    /\ DOMAIN index = Keys
    /\ \A key \in Keys : index[key].file_number = current_file_number - 1
    /\ \E key \in Keys : index[key].offset > 0

----------------------------------------------------------------------------
(* The waste on disk *)

\* the i-th command of the segment is the byte range of some index entry
Covered(idx, d, number, i) ==
    LET content == d[FileName(number)]
    IN \E key \in DOMAIN idx :
          idx[key] = CommandPosition(OffsetOf(content, i),
                                     to_vec_len(content[i]), number)

RECURSIVE UncoveredBytes(_, _, _, _)
\* the bytes of the commands i.. of the segment that no index entry covers
UncoveredBytes(idx, d, number, i) ==
    IF i > Len(d[FileName(number)]) THEN 0
    ELSE (IF Covered(idx, d, number, i) THEN 0
          ELSE to_vec_len(d[FileName(number)][i]))
         + UncoveredBytes(idx, d, number, i + 1)

RECURSIVE SumUncovered(_, _, _)
SumUncovered(idx, d, numbers) ==
    IF numbers = {} THEN 0
    ELSE LET number == CHOOSE n \in numbers : TRUE
         IN UncoveredBytes(idx, d, number, 1)
            + SumUncovered(idx, d, numbers \ {number})

\* the bytes in the segment files that no index entry covers
TrueWaste(idx, d) == SumUncovered(idx, d, SegmentNumbers(d))

\* C14: between operations (after recovery, set, remove, compaction, and
\* after a crash followed by reopen) useless_size is at least the number of
\* bytes in the segment files that no index entry covers
C14_WasteCounterIsUpperBound ==
    pc = "idle" => useless_size >= TrueWaste(index, dir)

\* on a reopened store, whose counter recover() has computed, a remove has
\* left its RM command and the SET command of its key as waste on disk
C14_Witness ==
    /\ pc = "idle"
    /\ hist.restarts > 0
    /\ last.op = "remove"
    /\ last.result = "Ok"
    /\ TrueWaste(index, dir) > 0

----------------------------------------------------------------------------
(* A write that fails with an Io error *)

\* The encoded command is shorter than the BufWriter's buffer, so write_all
\* only buffers it and advances the position; the flush that would write it
\* to the file fails, `?` returns Err(Io) and no byte has reached the file.
\* The caller that got the error may still read; it then drops the store.

\* set: the flush fails before the index is touched
SetFailsIo(key, value) ==
    /\ pc = "idle"
    /\ UNCHANGED poolvars
    /\ LET command == SET(key, value)
           offset == current_writer.position
       IN current_writer' = [position |-> offset + to_vec_len(command),
                             buffer |-> <<command>>]
    /\ pc' = "failed"
    /\ last' = Called("set", key, "Io")
    /\ UNCHANGED <<dir, index, current_readers, current_file_number,
                   useless_size, compact_local, ref, hist>>

\* remove: the flush fails after `self.index.remove(&key)` has run
RemoveFailsIo(key) ==
    /\ pc = "idle"
    /\ UNCHANGED poolvars
    /\ key \in DOMAIN index
    /\ useless_size' = useless_size + OldLength(index, key)
    /\ index' = IndexRemove(index, key)
    /\ LET command == RM(key)
           offset == current_writer.position
       IN current_writer' = [position |-> offset + to_vec_len(command),
                             buffer |-> <<command>>]
    /\ pc' = "failed"
    /\ last' = Called("remove", key, "Io")
    /\ UNCHANGED <<dir, current_readers, current_file_number, compact_local,
                   ref, hist>>

\* the store is dropped; the BufWriter's drop flushes once more and ignores
\* the outcome, so the buffered command reaches the file or is lost
DropFailed ==
    /\ pc = "failed"
    /\ UNCHANGED poolvars
    /\ dir' \in {dir, AppendTo(dir, FileName(current_file_number),
                               current_writer.buffer)}
    /\ Closed
    /\ last' = Called("drop", None, "Ok")
    /\ hist.restarts < MaxRestarts
    /\ hist' = [NoHist EXCEPT !.restarts = hist.restarts + 1]

NextIo ==
    \/ Open
    \/ \E kv \in Inputs : Set(kv[1], kv[2])
    \/ \E key \in Keys : Remove(key)
    \/ CompactCopy
    \/ CompactFlush
    \/ CompactDelete
    \/ CompactFinish
    \/ Drop
    \/ \E kv \in Inputs : SetFailsIo(kv[1], kv[2])
    \/ \E key \in Keys : RemoveFailsIo(key)
    \/ DropFailed

SpecIo == Init /\ [][NextIo]_vars

\* what get returns for every key on the store open() builds from d
RecoveredView(d) ==
    LET r == recover(d)
    IN [k \in Keys |-> get(r.index, r.readers, d, k)]

\* the step is a set or remove that returns Err(Io), no byte written
FailsIo == pc = "idle" /\ pc' = "failed" /\ dir' = dir

\* C15: when set or remove fails with an Io error and no byte of its
\* command has reached the segment, the index and the waste counter are as
\* before the call and get returns, for every key, what it would return
\* after reopening the directory
C15_IoFailureLeavesStateConsistent ==
    [][FailsIo =>
         /\ index' = index
         /\ useless_size' = useless_size
         /\ ViewMap' = RecoveredView(dir')]_vars

----------------------------------------------------------------------------
(* After a compaction *)

\* hist.compacted_segment is the segment m the last compact() that returned
\* Ok has copied the live commands into, until the next compact() is
\* entered; it is kept when the store is dropped and reopened.
CompactedSegment == hist.compacted_segment

\* compact() has just returned Ok
JustCompacted == pc = "idle" /\ last.compacted

\* C16: when compact() has returned after it created the compacted segment
\* m, the directory holds exactly the segments m and m+1, every index entry
\* points into m, m+1 is empty and is the active segment; and until the next
\* compaction, also across a reopen, m exists and is not written: every
\* append goes to m+1, and the only other file written is the segment m+2
\* that the next compact() creates
C16_CompactionLeavesTwoSegments ==
    [][/\ JustCompacted =>
            /\ SegmentNumbers(dir) = {CompactedSegment, CompactedSegment + 1}
            /\ \A key \in DOMAIN index :
                   index[key].file_number = CompactedSegment
            /\ dir[FileName(CompactedSegment + 1)] = <<>>
            /\ current_file_number = CompactedSegment + 1
            /\ current_writer = NoWriter
       /\ CompactedSegment # NoNumber =>
            /\ Exists(dir, FileName(CompactedSegment))
            /\ Exists(dir', FileName(CompactedSegment))
            /\ dir'[FileName(CompactedSegment)] = dir[FileName(CompactedSegment)]
            /\ \A name \in DOMAIN dir' :
                   (name \notin DOMAIN dir \/ dir'[name] # dir[name])
                       => \/ name = FileName(CompactedSegment + 1)
                          \/ /\ EntersCompact
                             /\ name = FileName(CompactedSegment + 2)
            /\ pc' = "idle" => current_file_number' = CompactedSegment + 1]_vars

\* after a compaction the store was dropped and reopened, and a set has
\* appended its command to the segment above the compacted one
C16_Witness ==
    /\ pc = "idle"
    /\ CompactedSegment # NoNumber
    /\ hist.restarts > 0
    /\ last.op = "set"
    /\ ~last.compacted
    /\ dir[FileName(CompactedSegment + 1)] # <<>>
    /\ dir[FileName(CompactedSegment)] # <<>>

----------------------------------------------------------------------------
(* compact() with the two statements of its delete loop as two steps *)

\* `remove_file` before `self.current_readers.remove(&number)`
CompactUnlinkBeforeReader ==
    /\ pc = "compact_delete"
    /\ UNCHANGED poolvars
    /\ compact_local.delete_file_numbers \subseteq current_readers
    /\ \E number \in compact_local.delete_file_numbers :
         dir' = Unlink(dir, FileName(number))
    /\ UNCHANGED <<pc, index, current_readers, current_writer,
                   current_file_number, useless_size, compact_local,
                   last, ref, hist>>

\* self.current_readers.remove(&number);
CompactRemoveReader ==
    /\ pc = "compact_delete"
    /\ UNCHANGED poolvars
    /\ compact_local.delete_file_numbers \subseteq current_readers
    /\ \E number \in compact_local.delete_file_numbers :
         current_readers' = current_readers \ {number}
    /\ UNCHANGED <<dir, pc, index, current_writer, current_file_number,
                   useless_size, compact_local, last, ref, hist>>

\* remove_file(self.dir_path.join(format!("data_{}.txt", number)))?;
CompactRemoveFile ==
    /\ pc = "compact_delete"
    /\ UNCHANGED poolvars
    /\ \E number \in compact_local.delete_file_numbers \ current_readers :
         /\ dir' = Unlink(dir, FileName(number))
         /\ compact_local' = [compact_local EXCEPT
                                 !.delete_file_numbers = @ \ {number}]
    /\ UNCHANGED <<pc, index, current_readers, current_writer,
                   current_file_number, useless_size, last, ref, hist>>

NextSteps ==
    \/ Open
    \/ \E kv \in Inputs : Set(kv[1], kv[2])
    \/ \E key \in Keys : Get(key)
    \/ \E key \in Keys : Remove(key)
    \/ CompactCopy
    \/ CompactFlush
    \/ CompactRemoveReader
    \/ CompactRemoveFile
    \/ CompactFinish
    \/ Drop
    \/ Crash

SpecSteps == Init /\ [][NextSteps]_vars

\* C17: at every step, also inside compact(), every reader of the reader
\* set refers to a segment file that exists and every segment an index
\* entry names has a reader, so that neither get nor compact() reach the
\* panic "Can not find key in files but it is in memory"; between
\* operations the keys of the reader set are the segments of the directory
C17_ReadersReferToExistingFiles ==
    /\ \A number \in current_readers : Exists(dir, FileName(number))
    /\ \A key \in DOMAIN index : index[key].file_number \in current_readers
    /\ last.result # "panic"
    /\ pc = "idle" => current_readers = SegmentNumbers(dir)

\* inside compact(), the reader of a segment is removed and its file is not
\* yet unlinked, while another old segment still has both
C17_Witness ==
    /\ pc = "compact_delete"
    /\ \E number \in compact_local.delete_file_numbers :
         /\ number \notin current_readers
         /\ Exists(dir, FileName(number))
    /\ \E number \in compact_local.delete_file_numbers :
         number \in current_readers

----------------------------------------------------------------------------
(* current_file_number *)

\* hist.entered is current_file_number as it was when the operation that
\* has just returned entered compact()
EnteredAt == hist.entered

\* C18: current_file_number is the highest segment number of the directory,
\* and when a compaction has run it is exactly 1 more than it was before
\* the compaction
C18_CompactionAddsOne ==
    /\ pc # "closed" => current_file_number = HighestSegment(dir)
    /\ JustCompacted => current_file_number = EnteredAt + 1

----------------------------------------------------------------------------
(* SharedQueueThreadPool *)

num == Len(workers)

WorkerIds == 1..num

\* the Sender is a field of the pool: it lives until drop() has returned
SenderAlive == pool_pc # "dropped"

NextJob == Cardinality({j \in 1..MaxJobs : jobs[j].status # "none"}) + 1

\* SharedQueueThreadPool::new: the channel, the Arc, one Worker per id;
\* the Arc held by new() itself is gone when new() returns
new(threads) ==
    /\ pool_pc = "none"
    /\ workers' = [id \in 1..threads |-> [state |-> "loop", job |-> 0]]
    /\ receiver_refs' = threads
    /\ queue' = <<>>
    /\ mutex' = [holder |-> NoHolder, poisoned |-> FALSE]
    /\ pool_pc' = "live"
    /\ UNCHANGED <<jobs, drop_local, last_spawn>>
    /\ UNCHANGED kvvars

\* SharedQueueThreadPool::spawn: self.sender.send(NewJob(job)).unwrap()
spawn(panics) ==
    /\ pool_pc = "live"
    /\ NextJob <= MaxJobs
    /\ IF receiver_refs > 0
       THEN /\ queue' = Append(queue, NewJob(NextJob))
            /\ jobs' = [jobs EXCEPT ![NextJob] =
                           [status |-> "queued", panics |-> panics]]
            /\ last_spawn' = "ok"
       ELSE /\ last_spawn' = "panic"
            /\ UNCHANGED <<queue, jobs>>
    /\ UNCHANGED <<pool_pc, workers, mutex, receiver_refs, drop_local>>
    /\ UNCHANGED kvvars

\* a worker whose loop ends without break: its thread unwinds
WorkerDies(id) ==
    /\ workers' = [workers EXCEPT ![id] = [state |-> "panicked", job |-> 0]]
    /\ receiver_refs' = receiver_refs - 1

\* receiver.lock().unwrap()
WorkerLock(id) ==
    /\ pool_pc # "none"
    /\ id \in WorkerIds
    /\ workers[id].state = "loop"
    /\ mutex.holder = NoHolder
    /\ IF mutex.poisoned
       THEN /\ WorkerDies(id)
            /\ UNCHANGED mutex
       ELSE /\ mutex' = [mutex EXCEPT !.holder = id]
            /\ workers' = [workers EXCEPT ![id].state = "recv"]
            /\ UNCHANGED receiver_refs
    /\ UNCHANGED <<pool_pc, queue, jobs, drop_local, last_spawn>>
    /\ UNCHANGED kvvars

\* a worker that reads the message at the head of the channel and leaves a
\* NewJob message there
WorkerRecvPeeks(id) ==
    /\ id \in WorkerIds
    /\ workers[id].state = "recv"
    /\ mutex.holder = id
    /\ queue # <<>> \/ ~SenderAlive
    /\ IF queue # <<>>
       THEN LET message == Head(queue)
            IN /\ mutex' = [mutex EXCEPT !.holder = NoHolder]
               /\ IF message.type = "NewJob"
                  THEN /\ queue' = queue
                       /\ workers' = [workers EXCEPT ![id] =
                                 [state |-> "job", job |-> message.job]]
                       /\ jobs' = [jobs EXCEPT ![message.job].status = "running"]
                       /\ UNCHANGED receiver_refs
                  ELSE /\ queue' = Tail(queue)
                       /\ workers' = [workers EXCEPT ![id] =
                                 [state |-> "terminated", job |-> 0]]
                       /\ receiver_refs' = receiver_refs - 1
                       /\ UNCHANGED jobs
       ELSE /\ WorkerDies(id)
            /\ mutex' = [holder |-> NoHolder, poisoned |-> TRUE]
            /\ UNCHANGED <<queue, jobs>>
    /\ UNCHANGED <<pool_pc, drop_local, last_spawn>>
    /\ UNCHANGED kvvars

\* a worker that keeps the MutexGuard while it runs the job
WorkerRecvHoldsLock(id) ==
    /\ id \in WorkerIds
    /\ workers[id].state = "recv"
    /\ mutex.holder = id
    /\ queue # <<>> \/ ~SenderAlive
    /\ IF queue # <<>>
       THEN LET message == Head(queue)
            IN /\ queue' = Tail(queue)
               /\ IF message.type = "NewJob"
                  THEN /\ mutex' = mutex
                       /\ workers' = [workers EXCEPT ![id] =
                                 [state |-> "job", job |-> message.job]]
                       /\ jobs' = [jobs EXCEPT ![message.job].status = "running"]
                       /\ UNCHANGED receiver_refs
                  ELSE /\ mutex' = [mutex EXCEPT !.holder = NoHolder]
                       /\ workers' = [workers EXCEPT ![id] =
                                 [state |-> "terminated", job |-> 0]]
                       /\ receiver_refs' = receiver_refs - 1
                       /\ UNCHANGED jobs
       ELSE /\ WorkerDies(id)
            /\ mutex' = [holder |-> NoHolder, poisoned |-> TRUE]
            /\ UNCHANGED <<queue, jobs>>
    /\ UNCHANGED <<pool_pc, drop_local, last_spawn>>
    /\ UNCHANGED kvvars

\* .recv().unwrap() under the lock, the guard dropped with the statement,
\* then the match on the message
WorkerRecv(id) ==
    /\ id \in WorkerIds
    /\ workers[id].state = "recv"
    /\ mutex.holder = id
    /\ queue # <<>> \/ ~SenderAlive
    /\ IF queue # <<>>
       THEN LET message == Head(queue)
            IN /\ queue' = Tail(queue)
               /\ mutex' = [mutex EXCEPT !.holder = NoHolder]
               /\ IF message.type = "NewJob"
                  THEN /\ workers' = [workers EXCEPT ![id] =
                                 [state |-> "job", job |-> message.job]]
                       /\ jobs' = [jobs EXCEPT ![message.job].status = "running"]
                       /\ UNCHANGED receiver_refs
                  ELSE /\ workers' = [workers EXCEPT ![id] =
                                 [state |-> "terminated", job |-> 0]]
                       /\ receiver_refs' = receiver_refs - 1
                       /\ UNCHANGED jobs
       ELSE /\ WorkerDies(id)
            /\ mutex' = [holder |-> NoHolder, poisoned |-> TRUE]
            /\ UNCHANGED <<queue, jobs>>
    /\ UNCHANGED <<pool_pc, drop_local, last_spawn>>
    /\ UNCHANGED kvvars

\* a worker that runs the job outside catch_unwind
WorkerJobUncaught(id) ==
    /\ id \in WorkerIds
    /\ workers[id].state = "job"
    /\ LET job == workers[id].job
       IN IF jobs[job].panics
          THEN /\ jobs' = [jobs EXCEPT ![job].status = "panicked"]
               /\ WorkerDies(id)
          ELSE /\ jobs' = [jobs EXCEPT ![job].status = "done"]
               /\ workers' = [workers EXCEPT ![id] = [state |-> "loop", job |-> 0]]
               /\ UNCHANGED receiver_refs
    /\ UNCHANGED <<pool_pc, queue, mutex, drop_local, last_spawn>>
    /\ UNCHANGED kvvars

\* panic::catch_unwind(AssertUnwindSafe(job)): the job runs to its end or
\* to its panic, and the loop goes on
WorkerJob(id) ==
    /\ id \in WorkerIds
    /\ workers[id].state = "job"
    /\ LET job == workers[id].job
       IN jobs' = [jobs EXCEPT ![job].status =
                      IF jobs[job].panics THEN "panicked" ELSE "done"]
    /\ workers' = [workers EXCEPT ![id] = [state |-> "loop", job |-> 0]]
    /\ UNCHANGED <<pool_pc, queue, mutex, receiver_refs, drop_local, last_spawn>>
    /\ UNCHANGED kvvars

\* the pool goes out of scope: drop() starts
DropPool ==
    /\ pool_pc = "live"
    /\ pool_pc' = IF num = 0 THEN "drop_join" ELSE "drop_send"
    /\ drop_local' = [sent |-> 0, joined |-> 0]
    /\ UNCHANGED <<workers, queue, mutex, receiver_refs, jobs, last_spawn>>
    /\ UNCHANGED kvvars

\* a drop() that sends one Terminate fewer than there are workers
DropSendTooFew ==
    /\ pool_pc = "drop_send"
    /\ IF drop_local.sent + 1 < num
       THEN queue' = Append(queue, Terminate)
       ELSE queue' = queue
    /\ drop_local' = [drop_local EXCEPT !.sent = @ + 1]
    /\ pool_pc' = IF drop_local.sent + 1 = num THEN "drop_join" ELSE "drop_send"
    /\ UNCHANGED <<workers, mutex, receiver_refs, jobs, last_spawn>>
    /\ UNCHANGED kvvars

\* one turn of `for _ in &self.workers { sender.send(Terminate).unwrap() }`
DropSend ==
    /\ pool_pc = "drop_send"
    /\ IF receiver_refs > 0
       THEN /\ queue' = Append(queue, Terminate)
            /\ drop_local' = [drop_local EXCEPT !.sent = @ + 1]
            /\ pool_pc' = IF drop_local.sent + 1 = num
                          THEN "drop_join" ELSE "drop_send"
       ELSE /\ pool_pc' = "drop_panicked"
            /\ UNCHANGED <<queue, drop_local>>
    /\ UNCHANGED <<workers, mutex, receiver_refs, jobs, last_spawn>>
    /\ UNCHANGED kvvars

\* one turn of `for worker in &mut self.workers { thread.join().unwrap() }`
DropJoin ==
    /\ pool_pc = "drop_join"
    /\ drop_local.joined < num
    /\ LET worker == workers[drop_local.joined + 1]
       IN /\ worker.state \in {"terminated", "panicked"}
          /\ IF worker.state = "terminated"
             THEN /\ drop_local' = [drop_local EXCEPT !.joined = @ + 1]
                  /\ UNCHANGED pool_pc
             ELSE /\ pool_pc' = "drop_panicked"
                  /\ UNCHANGED drop_local
    /\ UNCHANGED <<workers, queue, mutex, receiver_refs, jobs, last_spawn>>
    /\ UNCHANGED kvvars

\* drop() returns; the fields of the pool, the Sender among them, are dropped
DropReturn ==
    /\ pool_pc = "drop_join"
    /\ drop_local.joined = num
    /\ pool_pc' = "dropped"
    /\ UNCHANGED <<workers, queue, mutex, receiver_refs, jobs, drop_local,
                   last_spawn>>
    /\ UNCHANGED kvvars

NextPool ==
    \/ \E threads \in 0..MaxWorkers : new(threads)
    \/ \E panics \in BOOLEAN : spawn(panics)
    \/ \E id \in 1..MaxWorkers : WorkerLock(id)
    \/ \E id \in 1..MaxWorkers : WorkerRecv(id)
    \/ \E id \in 1..MaxWorkers : WorkerJob(id)
    \/ DropPool
    \/ DropSend
    \/ DropJoin
    \/ DropReturn

InitPool == NoStore /\ NoPool

SpecPool == InitPool /\ [][NextPool]_vars

\* every thread that can take a step is scheduled eventually; nothing
\* obliges the owner of the pool to call new, spawn or to drop the pool
PoolFairness ==
    /\ \A id \in 1..MaxWorkers :
          /\ WF_vars(WorkerLock(id))
          /\ WF_vars(WorkerRecv(id))
          /\ WF_vars(WorkerJob(id))
    /\ WF_vars(DropSend)
    /\ WF_vars(DropJoin)
    /\ WF_vars(DropReturn)

SpecPoolFair == InitPool /\ [][NextPool]_vars /\ PoolFairness

----------------------------------------------------------------------------
(* Claims about the thread pool *)

InLoop(id) == workers[id].state \in {"loop", "recv", "job"}

TerminatesQueued ==
    Cardinality({i \in 1..Len(queue) : queue[i].type = "Terminate"})

TerminatedWorkers ==
    Cardinality({id \in WorkerIds : workers[id].state = "terminated"})

\* C8: a job that panics does not cost a worker: no worker thread ever
\* panics, all workers of a live pool are in their receive loop, and every
\* job that does not panic, once queued, is run to completion.
C8_PanickingJobsKeepWorkers ==
    /\ [](\A id \in WorkerIds :
            /\ workers[id].state # "panicked"
            /\ pool_pc = "live" => InLoop(id))
    /\ \A j \in 1..MaxJobs :
          (jobs[j].status = "queued" /\ ~jobs[j].panics)
              ~> (jobs[j].status = "done")

\* two jobs have panicked, both workers are in their loop and a later job
\* has been run to completion
C8_Witness ==
    /\ pool_pc = "live" /\ num = 2
    /\ jobs[1].status = "panicked" /\ jobs[2].status = "panicked"
    /\ jobs[3].status = "done"
    /\ \A id \in WorkerIds : InLoop(id)

\* C9: for every thread count new accepts, 0 included, spawn enqueues the
\* job and returns; it never panics.
C9_SpawnAlwaysSucceeds == last_spawn # "panic"

\* C10: drop sends one Terminate per worker, every Terminate sent is either
\* still queued or was consumed by a worker of its own that left its loop,
\* and drop returns with every worker joined, the queue empty and the
\* mutex free.
C10_ShutdownTerminates ==
    /\ [](pool_pc \in {"drop_join", "dropped"} => drop_local.sent = num)
    /\ [](TerminatesQueued + TerminatedWorkers = drop_local.sent)
    /\ [](pool_pc # "drop_panicked")
    /\ [](pool_pc = "dropped" =>
            /\ \A id \in WorkerIds : workers[id].state = "terminated"
            /\ drop_local.joined = num
            /\ queue = <<>>
            /\ mutex.holder = NoHolder)
    /\ (pool_pc \in {"drop_send", "drop_join"}) ~> (pool_pc = "dropped")

\* a pool of two workers was dropped after it ran three jobs, two of
\* which panicked
C10_Witness ==
    /\ pool_pc = "dropped" /\ num = 2
    /\ jobs[1].status = "panicked" /\ jobs[2].status = "done"
    /\ jobs[3].status = "panicked"

\* the messages NewJob(j) in the channel
QueuedMessages(j) ==
    Cardinality({i \in 1..Len(queue) :
                    queue[i].type = "NewJob" /\ queue[i].job = j})

\* the workers that are running job j
RunningWorkers(j) ==
    Cardinality({id \in WorkerIds :
                    workers[id].state = "job" /\ workers[id].job = j})

\* the only steps of a job: accepted, taken by a worker, run to its end
JobSteps ==
    {<<"none", "queued">>, <<"queued", "running">>,
     <<"running", "done">>, <<"running", "panicked">>}

Finished(j) == jobs[j].status \in {"done", "panicked"}

\* C19: every job spawn has accepted is run exactly once, by exactly one
\* worker: it is in the channel once until one worker takes it, it is run
\* by that worker alone, it never runs again, it is run in the end, and
\* when drop has returned every accepted job has been run
C19_EveryJobRunsExactlyOnce ==
    /\ [][\A j \in 1..MaxJobs :
             jobs'[j].status # jobs[j].status
                 => <<jobs[j].status, jobs'[j].status>> \in JobSteps]_vars
    /\ [](\A j \in 1..MaxJobs :
             /\ QueuedMessages(j) = IF jobs[j].status = "queued" THEN 1 ELSE 0
             /\ RunningWorkers(j) = IF jobs[j].status = "running" THEN 1 ELSE 0)
    /\ [](pool_pc = "dropped" =>
             \A j \in 1..MaxJobs : jobs[j].status = "none" \/ Finished(j))
    /\ \A j \in 1..MaxJobs : (jobs[j].status = "queued") ~> Finished(j)

\* drop has sent its Terminate messages behind two jobs that are still in
\* the channel, while a worker runs the first job
C19_Witness ==
    /\ pool_pc = "drop_join" /\ num = 2
    /\ jobs[1].status = "running"
    /\ jobs[2].status = "queued" /\ jobs[3].status = "queued"
    /\ TerminatesQueued = 2
    /\ queue[Len(queue)].type = "Terminate"

\* the workers are scheduled; nothing obliges a job to return
BusyFairness ==
    \A id \in 1..MaxWorkers :
        /\ WF_vars(WorkerLock(id))
        /\ WF_vars(WorkerRecv(id))

SpecPoolBusy == InitPool /\ [][NextPool]_vars /\ BusyFairness

\* some worker is not running a job
SomeWorkerIdle == \E id \in WorkerIds : workers[id].state \in {"loop", "recv"}

\* job j is the next message of the channel
NextQueued(j) == queue # <<>> /\ Head(queue) = NewJob(j)

\* C20: a worker holds the mutex only while it receives, never while it
\* runs a job; so, even when the running jobs never return, a worker that
\* is not running a job takes the next queued job; and no more than num
\* jobs run at the same time
C20_LockNotHeldDuringJob ==
    /\ [](\A id \in WorkerIds :
             workers[id].state = "job" => mutex.holder # id)
    /\ [](mutex.holder # NoHolder => workers[mutex.holder].state = "recv")
    /\ [](Cardinality({j \in 1..MaxJobs : jobs[j].status = "running"}) <= num)
    /\ \A j \in 1..MaxJobs :
          (NextQueued(j) /\ SomeWorkerIdle) ~> (jobs[j].status = "running")

\* num = 2 jobs run at the same time and a third waits in the channel
C20_Witness ==
    /\ num = 2
    /\ \A id \in WorkerIds : workers[id].state = "job"
    /\ workers[1].job # workers[2].job
    /\ jobs[3].status = "queued"

====
